---- MODULE Spec2Model ----
(***************************************************************************)
(* Model of the EmotiBit payload parser (parse_payload.py) and of the      *)
(* Firebase batch processor (scripts/process_firebase_files.py).           *)
(*                                                                         *)
(* Text is modelled as a sequence of tokens: a separator the code slices   *)
(* on ("/", "-", ".", ",", " ") is a token of its own, a numeral that the   *)
(* code converts is one token per digit, and any other run of characters   *)
(* (a subject id, a date, a payload value) is one token.                   *)
(* Optional / dynamically typed values are tagged records (None, IntV,     *)
(* FloatV, StrV).                                                          *)
(***************************************************************************)
EXTENDS Integers, Sequences, FiniteSets, TLC

\* ------------------------------------------------------------------------
\* Bounds of the model
\* ------------------------------------------------------------------------
MaxRecs == 3        \* longest record sequence given to the expander alone
MaxVals == 3        \* most payload values of one record given to the expander

\* ------------------------------------------------------------------------
\* Program constants
\* ------------------------------------------------------------------------
MinColumns == 7         \* parse_payload.py:44
DefaultIntervalMs == 8  \* process_firebase_files.py:86 and :90

\* ------------------------------------------------------------------------
\* Dynamically typed values
\* ------------------------------------------------------------------------
None == [t |-> "none"]
StrV(s) == [t |-> "str", text |-> s]

\* ------------------------------------------------------------------------
\* Magnitudes of any size.  A Python int has no width and the significand
\* of a float has 53 bits, so a magnitude is kept as its limbs to the base
\* 2^15, the least significant first, without zero limbs at the top.
\* ------------------------------------------------------------------------
LimbBits == 15
LimbBase == 32768

\* 2^n for n up to 15
PowersOfTwo ==
    <<1, 2, 4, 8, 16, 32, 64, 128, 256, 512, 1024, 2048, 4096, 8192, 16384,
      32768>>

\* number of binary digits of a machine number below 2^16
BitLen(n) == Cardinality({k \in 1..16 : PowersOfTwo[k] <= n})

\* x without the zero limbs at its high end
BigTrim(x) ==
    LET nz == {k \in 1..Len(x) : x[k] # 0}
    IN IF nz = {} THEN <<>>
       ELSE SubSeq(x, 1, CHOOSE k \in nz : \A m \in nz : m <= k)

BigOfNat(n) ==
    LET RECURSIVE f(_)
        f(k) == IF k = 0 THEN <<>> ELSE <<k % LimbBase>> \o f(k \div LimbBase)
    IN f(n)

\* the magnitude as a machine number; it has to be below 2^31
NatOfBig(x) ==
    LET RECURSIVE v(_)
        v(k) == IF k > Len(x) THEN 0 ELSE x[k] + LimbBase * v(k + 1)
    IN v(1)

BigAdd(x, y) ==
    LET n == IF Len(x) > Len(y) THEN Len(x) ELSE Len(y)
        limb(z, k) == IF k <= Len(z) THEN z[k] ELSE 0
        RECURSIVE a(_, _)
        a(k, carry) ==
            IF k > n THEN (IF carry = 0 THEN <<>> ELSE <<carry>>)
            ELSE LET s == limb(x, k) + limb(y, k) + carry
                 IN <<s % LimbBase>> \o a(k + 1, s \div LimbBase)
    IN IF x = <<>> THEN y ELSE IF y = <<>> THEN x ELSE a(1, 0)

\* x - y, for x >= y
BigSub(x, y) ==
    LET RECURSIVE s(_, _)
        s(k, borrow) ==
            IF k > Len(x) THEN <<>>
            ELSE LET d == x[k] - (IF k <= Len(y) THEN y[k] ELSE 0) - borrow
                 IN <<(d + LimbBase) % LimbBase>>
                        \o s(k + 1, IF d < 0 THEN 1 ELSE 0)
    IN IF y = <<>> THEN x ELSE BigTrim(s(1, 0))

\* x * m, for a machine number 0 <= m <= 2^15
BigMulSmall(x, m) ==
    LET RECURSIVE mul(_, _)
        mul(k, carry) ==
            IF k > Len(x) THEN (IF carry = 0 THEN <<>> ELSE <<carry>>)
            ELSE LET p == x[k] * m + carry
                 IN <<p % LimbBase>> \o mul(k + 1, p \div LimbBase)
    IN IF x = <<>> \/ m = 0 THEN <<>> ELSE mul(1, 0)

\* quotient and remainder of x by a machine number 0 < d < 2^16
BigDivSmall(x, d) ==
    LET RECURSIVE dv(_, _)
        dv(k, rem) ==
            IF k = 0 THEN [q |-> <<>>, r |-> rem]
            ELSE LET acc == rem * LimbBase + x[k]
                     low == dv(k - 1, acc % d)
                 IN [q |-> Append(low.q, acc \div d), r |-> low.r]
        res == dv(Len(x), 0)
    IN [q |-> BigTrim(res.q), r |-> res.r]

BigBitLen(x) ==
    IF x = <<>> THEN 0 ELSE LimbBits * (Len(x) - 1) + BitLen(x[Len(x)])

\* x * 2^n
BigShl(x, n) ==
    IF x = <<>> THEN <<>>
    ELSE [k \in 1..(n \div LimbBits) |-> 0]
            \o BigMulSmall(x, PowersOfTwo[(n % LimbBits) + 1])

\* x \div 2^n, and whether a one was shifted out
BigShr(x, n) ==
    LET limbs == n \div LimbBits
        cut == IF limbs > Len(x) THEN Len(x) ELSE limbs
        dv == BigDivSmall(SubSeq(x, cut + 1, Len(x)), PowersOfTwo[(n % LimbBits) + 1])
    IN [q |-> dv.q, sticky |-> dv.r # 0 \/ \E k \in 1..cut : x[k] # 0]

\* sum of two signed magnitudes
SignedSum(xneg, x, yneg, y) ==
    LET RECURSIVE cmp(_)
        \* -1, 0 or 1 as x is below, equal to or above y in the limbs up to k
        cmp(k) == IF k = 0 THEN 0
                  ELSE IF x[k] < y[k] THEN -1
                  ELSE IF x[k] > y[k] THEN 1
                  ELSE cmp(k - 1)
        c == IF Len(x) < Len(y) THEN -1
             ELSE IF Len(x) > Len(y) THEN 1
             ELSE cmp(Len(x))
    IN IF xneg = yneg THEN [neg |-> xneg, mag |-> BigAdd(x, y)]
       ELSE IF c = 0 THEN [neg |-> FALSE, mag |-> <<>>]
       ELSE IF c > 0 THEN [neg |-> xneg, mag |-> BigSub(x, y)]
       ELSE [neg |-> yneg, mag |-> BigSub(y, x)]

\* ------------------------------------------------------------------------
\* Python numbers
\* ------------------------------------------------------------------------
\* an int: sign and magnitude
IntV(n) ==
    [t |-> "int", neg |-> n < 0, mag |-> BigOfNat(IF n < 0 THEN -n ELSE n)]

\* a float is a finite IEEE-754 double: sign, significand and exponent of
\* two, the significand odd and below 2^53; zero has the empty significand
\* (the sign of zero, infinities, NaN and subnormal numbers are left out)
MantissaBits == 53

DoubleNorm(neg, man, exp) ==
    IF man = <<>>
    THEN [t |-> "float", neg |-> FALSE, man |-> <<>>, exp |-> 0]
    ELSE LET nz == {k \in 1..Len(man) : man[k] # 0}
             limbs == (CHOOSE k \in nz : \A m \in nz : k <= m) - 1
             rest == SubSeq(man, limbs + 1, Len(man))
             bits == Cardinality({k \in 1..LimbBits :
                                     rest[1] % PowersOfTwo[k + 1] = 0})
         IN [t |-> "float", neg |-> neg,
             man |-> BigDivSmall(rest, PowersOfTwo[bits + 1]).q,
             exp |-> exp + LimbBits * limbs + bits]

\* the whole number nearest to a value, a half going to the even one;
\* sh.q holds the whole part of the value and, as its lowest bit, the
\* first bit behind it, sh.sticky and inexact tell whether more follows
NearestEven(sh, inexact) ==
    BigDivSmall(IF /\ sh.q # <<>>
                   /\ sh.q[1] % 2 = 1
                   /\ (sh.sticky \/ inexact \/ (sh.q[1] \div 2) % 2 = 1)
                THEN BigAdd(sh.q, <<2>>) ELSE sh.q,
                2).q

\* the double nearest to man * 2^exp / (divs[1] * divs[2] * ...), a tie
\* going to the even significand: the rounding of every float operation
RoundToDouble(neg, man, exp, divs) ==
    LET RECURSIVE width(_)
        width(i) == IF i > Len(divs) THEN 0
                    ELSE BitLen(divs[i]) + width(i + 1)
        \* man is shifted left by s bits before it is divided
        s == IF divs # <<>> /\ BigBitLen(man) < MantissaBits + 3 + width(1)
             THEN MantissaBits + 3 + width(1) - BigBitLen(man) ELSE 0
        RECURSIVE dv(_, _, _)
        dv(i, n, inexact) ==
            IF i > Len(divs) THEN [q |-> n, inexact |-> inexact]
            ELSE dv(i + 1, BigDivSmall(n, divs[i]).q,
                    inexact \/ BigDivSmall(n, divs[i]).r # 0)
        d == dv(1, BigShl(man, s), FALSE)
        \* the number of bits more than a significand holds
        drop == BigBitLen(d.q) - MantissaBits
    IN DoubleNorm(neg,
                  IF drop <= 0 THEN d.q
                  ELSE NearestEven(BigShr(d.q, drop - 1), d.inexact),
                  IF drop <= 0 THEN exp - s ELSE exp - s + drop)

\* the float nearest to the fraction n / d, for 0 < d < 2^16
FloatV(n, d) ==
    RoundToDouble(n < 0, BigOfNat(IF n < 0 THEN -n ELSE n), 0,
                  IF d = 1 THEN <<>> ELSE <<d>>)

\* float(v) for an int or a float v
AsFloat(v) ==
    IF v.t = "int" THEN RoundToDouble(v.neg, v.mag, 0, <<>>) ELSE v

DoubleNeg(a) == IF a.man = <<>> THEN a ELSE [a EXCEPT !.neg = ~a.neg]

DoubleAdd(a, b) ==
    LET e == IF a.exp < b.exp THEN a.exp ELSE b.exp
        r == SignedSum(a.neg, BigShl(a.man, a.exp - e),
                       b.neg, BigShl(b.man, b.exp - e))
    IN RoundToDouble(r.neg, r.mag, e, <<>>)

\* a - b: exact on two ints, the float operation otherwise
Minus(a, b) ==
    IF a.t = "int" /\ b.t = "int"
    THEN LET r == SignedSum(a.neg, a.mag, ~b.neg, b.mag)
         IN [t |-> "int", neg |-> r.neg /\ r.mag # <<>>, mag |-> r.mag]
    ELSE DoubleAdd(AsFloat(a), DoubleNeg(AsFloat(b)))

\* a / k for an int or a float a and a count 0 < k < 2^16 (true division)
TrueDiv(a, k) ==
    RoundToDouble(a.neg, IF a.t = "int" THEN a.mag ELSE a.man,
                  IF a.t = "int" THEN 0 ELSE a.exp, <<k>>)

\* j * x for a count 0 <= j <= 2^15 and a float x
Times(j, x) == RoundToDouble(x.neg, BigMulSmall(x.man, j), x.exp, <<>>)

\* a + x for an int or a float a and a float x
Plus(a, x) == DoubleAdd(AsFloat(a), x)

\* the whole part of |a|
DoubleWhole(a) ==
    IF a.exp >= 0 THEN BigShl(a.man, a.exp) ELSE BigShr(a.man, -a.exp).q

\* modf: a without its whole part, with the sign of a
DoubleFrac(a) ==
    DoubleNorm(a.neg,
               IF a.exp >= 0 THEN <<>>
               ELSE BigSub(a.man, BigShl(DoubleWhole(a), -a.exp)),
               a.exp)

\* |fmod(x, m)| for a float x and 0 < m < 2^15: x without the multiples of
\* m in its whole part; it is exact
FloatRem(x, m) ==
    DoubleNorm(FALSE,
               IF x.exp >= 0
               THEN BigOfNat(BigDivSmall(DoubleWhole(x), m).r)
               ELSE BigSub(x.man,
                           BigShl(BigMulSmall(
                                      BigDivSmall(DoubleWhole(x), m).q, m),
                                  -x.exp)),
               IF x.exp >= 0 THEN 0 ELSE x.exp)

\* x % m for a float x and 0 < m < 2^15 (float_rem: fmod, which has the
\* sign of x, and to which m is added when it is negative)
FloatMod(x, m) ==
    IF x.neg /\ FloatRem(x, m).man # <<>>
    THEN DoubleAdd(FloatV(m, 1), DoubleNeg(FloatRem(x, m)))
    ELSE FloatRem(x, m)

\* ------------------------------------------------------------------------
\* Python string operations on token sequences
\* ------------------------------------------------------------------------
\* str.split(sep) for a one-token separator: always at least one part
Split(s, sep) ==
    LET RECURSIVE go(_, _, _)
        go(i, part, acc) ==
            IF i > Len(s) THEN Append(acc, part)
            ELSE IF s[i] = sep THEN go(i + 1, <<>>, Append(acc, part))
            ELSE go(i + 1, Append(part, s[i]), acc)
    IN go(1, <<>>, <<>>)

\* positions at which the token sequence sep occurs in s
Occurrences(s, sep) ==
    {i \in 1..(Len(s) - Len(sep) + 1) : SubSeq(s, i, i + Len(sep) - 1) = sep}

\* str.rsplit(sep, 1): split once, at the last occurrence of sep
RSplit1(s, sep) ==
    LET occ == Occurrences(s, sep)
    IN IF occ = {} THEN <<s>>
       ELSE LET i == CHOOSE k \in occ : \A m \in occ : m <= k
            IN <<SubSeq(s, 1, i - 1), SubSeq(s, i + Len(sep), Len(s))>>

\* str.endswith(suffix)
EndsWith(s, suffix) ==
    /\ Len(s) >= Len(suffix)
    /\ SubSeq(s, Len(s) - Len(suffix) + 1, Len(s)) = suffix

\* s[n:]
DropPrefix(s, n) == SubSeq(s, n + 1, Len(s))

\* str.lower(), on the upper-case tokens of the modelled alphabet
LowerTok(tok) ==
    CASE tok = "CSV" -> "csv"
      [] tok = "TXT" -> "txt"
      [] tok = "LOCATION" -> "location"
      [] OTHER -> tok
Lower(s) == [i \in 1..Len(s) |-> LowerTok(s[i])]

\* str.strip(): drop leading and trailing blanks
Strip(s) ==
    LET nb == {i \in 1..Len(s) : s[i] # " "}
    IN IF nb = {} THEN <<>>
       ELSE SubSeq(s, CHOOSE i \in nb : \A m \in nb : i <= m,
                      CHOOSE i \in nb : \A m \in nb : m <= i)

\* ------------------------------------------------------------------------
\* parse_payload._coerce_number
\* ------------------------------------------------------------------------
Digits == {"0", "1", "2", "3", "4", "5", "6", "7", "8", "9"}
DigitVal(d) ==
    CASE d = "0" -> 0 [] d = "1" -> 1 [] d = "2" -> 2 [] d = "3" -> 3
      [] d = "4" -> 4 [] d = "5" -> 5 [] d = "6" -> 6 [] d = "7" -> 7
      [] d = "8" -> 8 [] d = "9" -> 9

HasSign(text) == Len(text) > 0 /\ text[1] \in {"+", "-"}
Unsigned(text) == IF HasSign(text) THEN Tail(text) ELSE text
SignOf(text) == IF Len(text) > 0 /\ text[1] = "-" THEN -1 ELSE 1

\* _INT_PATTERN: ^[+-]?\d+$
MatchesInt(text) ==
    LET u == Unsigned(text)
    IN Len(u) > 0 /\ \A i \in 1..Len(u) : u[i] \in Digits

\* _FLOAT_PATTERN without an exponent: ^[+-]?(\d+\.\d*|\.\d+|\d+)$
\* (the tokens "e" and "E" are not in the modelled alphabet of numerals)
MatchesFloat(text) ==
    LET u == Unsigned(text)
        dots == {i \in 1..Len(u) : u[i] = "."}
    IN /\ Cardinality(dots) <= 1
       /\ \E i \in 1..Len(u) : u[i] \in Digits
       /\ \A i \in 1..Len(u) : u[i] \in Digits \cup {"."}

\* value of a run of digits
DigitsVal(ds) ==
    LET RECURSIVE v(_)
        v(n) == IF n = 0 THEN <<>>
                ELSE BigAdd(BigMulSmall(v(n - 1), 10),
                            BigOfNat(DigitVal(ds[n])))
    IN v(Len(ds))

\* int(text)
IntOf(text) ==
    LET mag == DigitsVal(Unsigned(text))
    IN [t |-> "int", neg |-> SignOf(text) = -1 /\ mag # <<>>, mag |-> mag]

\* float(text): the double nearest to the decimal digits / 10^frac, where
\* 10^frac = 2^frac * 5^frac and 5^frac is a product of divisors below 2^15
FloatOf(text) ==
    LET RECURSIVE p(_)
        p(k) == IF k = 0 THEN 1 ELSE 5 * p(k - 1)
        RECURSIVE PowersOfFive(_)
        PowersOfFive(k) == IF k = 0 THEN <<>>
                           ELSE IF k >= 6 THEN <<p(6)>> \o PowersOfFive(k - 6)
                           ELSE <<p(k)>>
        u == Unsigned(text)
        \* where the point is; behind the end if there is none
        dot == IF \E i \in 1..Len(u) : u[i] = "."
               THEN CHOOSE i \in 1..Len(u) : u[i] = "."
               ELSE Len(u) + 1
        frac == IF dot > Len(u) THEN 0 ELSE Len(u) - dot
    IN RoundToDouble(SignOf(text) = -1,
                     DigitsVal(SubSeq(u, 1, dot - 1)
                                  \o SubSeq(u, dot + 1, Len(u))),
                     -frac, PowersOfFive(frac))

coerce_number(value) ==
    LET text == Strip(value)
    IN IF text = <<>> THEN None
       ELSE IF MatchesInt(text) THEN IntOf(text)
       ELSE IF MatchesFloat(text) THEN FloatOf(text)
       ELSE StrV(text)

\* ------------------------------------------------------------------------
\* parse_payload.parse_payload_block / parse_file
\*
\* A payload blob is the sequence of its lines (str.splitlines); a line is a
\* token sequence.  Both functions are generators: the result is the
\* sequence of records yielded before the generator stops, and the error it
\* raised, if any.
\* ------------------------------------------------------------------------
NoError == [raised |-> FALSE]
ColumnError(raw_line, n) ==
    [raised |-> TRUE, kind |-> "ValueError", columns |-> n, line |-> raw_line]

StripAll(parts) == [i \in 1..Len(parts) |-> Strip(parts[i])]

\* parts = [p.strip() for p in line.split(",")]
LineParts(line) == StripAll(Split(line, ","))

\* [value for value in values if value.strip()]
NonBlank(values) ==
    LET RECURSIVE keep(_)
        keep(n) == IF n = 0 THEN <<>>
                   ELSE IF Strip(values[n]) # <<>>
                        THEN Append(keep(n - 1), values[n])
                   ELSE keep(n - 1)
    IN keep(Len(values))

\* the record yielded for a line that has at least 7 columns
PayloadRecord(parts) ==
    [packet |-> coerce_number(parts[2]),
     type_tag |-> parts[4],
     payload |-> NonBlank(DropPrefix(parts, 6))]

parse_payload_block(block_lines) ==
    LET RECURSIVE go(_, _)
        go(i, acc) ==
            IF i > Len(block_lines) THEN [records |-> acc, error |-> NoError]
            ELSE LET raw_line == block_lines[i]
                     line == Strip(raw_line)
                     parts == LineParts(line)
                 IN IF line = <<>> THEN go(i + 1, acc)
                    ELSE IF Len(parts) < MinColumns
                         THEN [records |-> acc,
                               error |-> ColumnError(raw_line, Len(parts))]
                    ELSE go(i + 1, Append(acc, PayloadRecord(parts)))
    IN go(1, <<>>)

\* the records parse_file yields for one row with a payload cell, one for
\* each record b.records of its payload block, and the error that ended the
\* block, if any
RowRecords(row, b) ==
    [records |->
        [k \in 1..Len(b.records) |->
            [timestamp_iso8601 |-> StrV(row.timestamp_iso8601),
             timestamp_epoch_ms |-> coerce_number(row.timestamp_epoch_ms),
             packet |-> b.records[k].packet,
             type_tag |-> b.records[k].type_tag,
             payload |-> b.records[k].payload]],
     error |-> b.error]

parse_file(rows) ==
    LET RECURSIVE go(_, _), yielded(_, _, _)
        yielded(i, acc, got) ==
            IF got.error.raised
            THEN [records |-> acc \o got.records, error |-> got.error]
            ELSE go(i + 1, acc \o got.records)
        go(i, acc) ==
            IF i > Len(rows) THEN [records |-> acc, error |-> NoError]
            ELSE IF ~rows[i].payload.present THEN go(i + 1, acc)
            ELSE yielded(i, acc,
                         RowRecords(rows[i],
                                    parse_payload_block(rows[i].payload.lines)))
    IN go(1, <<>>)

\* ------------------------------------------------------------------------
\* process_firebase_files.expand_payload_records
\* ------------------------------------------------------------------------
\* _PyTime_Round(x, ROUND_HALF_EVEN): the magnitude of the whole number
\* nearest to the float x, a half going to the even one
RoundHalfEven(x) ==
    IF x.exp >= 0 THEN BigShl(x.man, x.exp)
    ELSE NearestEven(BigShr(x.man, -x.exp - 1), FALSE)

\* datetime.fromtimestamp(d, tz=timezone.utc) for a float d of seconds: the
\* whole seconds and the microseconds of the time (modf, the fraction times
\* 1e6 = 15625 * 2^6 as a float, rounded half to even, then carried)
fromtimestamp(d) ==
    LET sign == IF d.neg THEN -1 ELSE 1
        \* the microseconds, from -1000000 to 1000000
        rounded ==
            sign * NatOfBig(RoundHalfEven(
                       RoundToDouble(d.neg,
                                     BigMulSmall(DoubleFrac(d).man, 15625),
                                     DoubleFrac(d).exp + 6, <<>>)))
    IN \* a full second, or microseconds below zero, are carried
       [sec |-> sign * NatOfBig(DoubleWhole(d)) + (rounded \div 1000000),
        us |-> rounded % 1000000]

\* dt.strftime("%Y-%m-%dT%H:%M:%S.") + f"{int(ms % 1000):03d}Z": the UTC
\* second of fromtimestamp(ms / 1000.0), and the truncated ms % 1000
IsoOfMs(ts) ==
    [t |-> "iso_utc",
     sec |-> fromtimestamp(TrueDiv(ts, 1000)).sec,
     ms |-> NatOfBig(DoubleWhole(FloatMod(AsFloat(ts), 1000)))]

\* (mutation) the total interval is not divided by the number of values
IntervalPerValue_Undivided(records, i) ==
    LET current_ts_ms == records[i].timestamp_epoch_ms
    IN IF i + 1 <= Len(records)
       THEN LET next_ts_ms == records[i + 1].timestamp_epoch_ms
            IN IF current_ts_ms # None /\ next_ts_ms # None
               THEN AsFloat(Minus(next_ts_ms, current_ts_ms))
               ELSE FloatV(DefaultIntervalMs, 1)
       ELSE FloatV(DefaultIntervalMs, 1)

\* interval_per_value of record i (1-based) with more than one value
IntervalPerValue(records, i) ==
    LET num_values == Len(records[i].payload)
        current_ts_ms == records[i].timestamp_epoch_ms
    IN IF i + 1 <= Len(records)
       THEN LET next_ts_ms == records[i + 1].timestamp_epoch_ms
            IN IF current_ts_ms # None /\ next_ts_ms # None
               THEN TrueDiv(Minus(next_ts_ms, current_ts_ms), num_values)
               ELSE FloatV(DefaultIntervalMs, 1)
       ELSE FloatV(DefaultIntervalMs, 1)

\* (mutation) the value index is counted from 1
InterpolatedTs_OneBased(current_ts_ms, j, interval) ==
    Plus(current_ts_ms, Times(j + 1, interval))

\* current_ts_ms + (j * interval_per_value), j counted from 0
InterpolatedTs(current_ts_ms, j, interval) ==
    Plus(current_ts_ms, Times(j, interval))

\* the row appended for value v (1-based) of record i, which has more than
\* one value: with the interpolated timestamp and the ISO text made from
\* it, or, without a timestamp, with the record's ISO text
FanOutRow(records, i, v) ==
    LET record == records[i]
        current_ts_ms == record.timestamp_epoch_ms
        stamped(interpolated_ts_ms) ==
            [timestamp_iso8601 |-> IsoOfMs(interpolated_ts_ms),
             timestamp_epoch_ms |-> interpolated_ts_ms,
             packet |-> record.packet,
             payload |-> record.payload[v]]
    IN IF current_ts_ms # None
       THEN stamped(InterpolatedTs(current_ts_ms, v - 1,
                                   IntervalPerValue(records, i)))
       ELSE [timestamp_iso8601 |-> record.timestamp_iso8601,
             timestamp_epoch_ms |-> None,
             packet |-> record.packet,
             payload |-> record.payload[v]]

\* (mutation) the first value of a multi-value record is skipped
FanOut_SkipsFirst(records, i) ==
    [v \in 1..(Len(records[i].payload) - 1) |-> FanOutRow(records, i, v + 1)]

\* for j, value in enumerate(payload): expanded.append(...)
FanOut(records, i) ==
    [v \in 1..Len(records[i].payload) |-> FanOutRow(records, i, v)]

\* the rows appended for record i (1-based)
ExpandRecord(records, i) ==
    LET record == records[i]
        payload == record.payload
        num_values == Len(payload)
    IN IF num_values = 0 THEN <<>>
       ELSE IF num_values = 1
       THEN <<[timestamp_iso8601 |-> record.timestamp_iso8601,
               timestamp_epoch_ms |-> record.timestamp_epoch_ms,
               packet |-> record.packet,
               payload |-> payload[1]]>>
       ELSE FanOut(records, i)

\* ------------------------------------------------------------------------
\* Artifact names (process_firebase_files.main and its docstring)
\* ------------------------------------------------------------------------
input_prefix == <<"recordings", "/">>
output_prefix == <<"parsed", "/">>

Extension(output_format) == IF output_format = "csv" THEN "csv" ELSE "jsonl"
ContentType(output_format) ==
    IF output_format = "csv" THEN "text/csv" ELSE "application/x-ndjson"

\* path_parts[0] of blob.name[len(input_prefix):].split("/")
UidOf(name) == Split(DropPrefix(name, Len(input_prefix)), "/")[1]
\* path_parts[-1]
FilenameOf(name) ==
    LET path_parts == Split(DropPrefix(name, Len(input_prefix)), "/")
    IN path_parts[Len(path_parts)]
Last(seq) == seq[Len(seq)]

\* process_file: date_part = filename.rsplit("-", 1)[-1].split(".")[0]
DataDatePart(name) ==
    Split(Last(RSplit1(FilenameOf(name), <<"-">>)), ".")[1]

\* process_file: f"{output_prefix}{uid}/{type_tag}/{date_part}.{extension}"
DataOutputName(name, type_tag, output_format) ==
    output_prefix \o UidOf(name) \o <<"/">> \o type_tag \o <<"/">>
        \o DataDatePart(name) \o <<".", Extension(output_format)>>

\* (mutation) the date is taken from the file name with its suffix left on
LocationDatePart_KeepsSuffix(name) ==
    Last(RSplit1(RSplit1(FilenameOf(name), <<".">>)[1], <<"-">>))

\* move_location_file: base_name = filename.rsplit("-location", 1)[0];
\* date_part = base_name.rsplit("-", 1)[-1]
LocationDatePart(name) ==
    LET base_name == RSplit1(FilenameOf(name), <<"-", "location">>)[1]
    IN Last(RSplit1(base_name, <<"-">>))

\* move_location_file: f"{output_prefix}{uid}/location/{date_part}.csv"
LocationOutputName(name) ==
    output_prefix \o UidOf(name) \o <<"/", "location", "/">>
        \o LocationDatePart(name) \o <<".", "csv">>

\* ------------------------------------------------------------------------
\* process_firebase_files.get_unparsed_files
\* ------------------------------------------------------------------------
\* what one parsed blob adds to parsed_data / parsed_location
ParsedMark(name) ==
    LET parts == Split(DropPrefix(name, Len(output_prefix)), "/")
    IN IF Len(parts) >= 3
       THEN LET uid == parts[1]
                tag_folder == parts[2]
                filename == parts[3]
                date_part == Split(filename, ".")[1]
            IN IF tag_folder = <<"location">>
               THEN [decodable |-> TRUE, location |-> TRUE,
                     key |-> uid \o <<"/">> \o uid \o <<"-">> \o date_part
                               \o <<"-", "location">>]
               ELSE [decodable |-> TRUE, location |-> FALSE,
                     key |-> uid \o <<"/">> \o uid \o <<"-">> \o date_part]
       ELSE [decodable |-> FALSE]

parsed_data(parsed_names) ==
    {m.key : m \in {k \in {ParsedMark(n) : n \in parsed_names} :
                        k.decodable /\ ~k.location}}
parsed_location(parsed_names) ==
    {m.key : m \in {k \in {ParsedMark(n) : n \in parsed_names} :
                        k.decodable /\ k.location}}

\* relative_path.rsplit(".", 1)[0]
BasePath(name) == RSplit1(DropPrefix(name, Len(input_prefix)), <<".">>)[1]

\* the blobs the loop over input_blobs does not skip
IsCsvBlob(name) ==
    /\ ~EndsWith(name, <<"/">>)
    /\ EndsWith(Lower(name), <<".", "csv">>)

\* (mutation) a data blob is selected whatever has been parsed
IsUnparsedData_WhateverParsed(name, parsed_data_set) ==
    /\ IsCsvBlob(name)
    /\ ~EndsWith(BasePath(name), <<"-", "location">>)

\* the blob goes to data_files
IsUnparsedData(name, parsed_data_set) ==
    /\ IsCsvBlob(name)
    /\ ~EndsWith(BasePath(name), <<"-", "location">>)
    /\ BasePath(name) \notin parsed_data_set

\* the blob goes to location_files
IsUnparsedLocation(name, parsed_location_set) ==
    /\ IsCsvBlob(name)
    /\ EndsWith(BasePath(name), <<"-", "location">>)
    /\ BasePath(name) \notin parsed_location_set

\* input_blobs is the listing in the order list_blobs returns it;
\* the result is (data_files, location_files)
get_unparsed_files(input_blobs, parsed_names) ==
    LET pd == parsed_data(parsed_names)
        pl == parsed_location(parsed_names)
    IN [data_files |->
            SelectSeq(input_blobs, LAMBDA b : IsUnparsedData(b, pd)),
        location_files |->
            SelectSeq(input_blobs, LAMBDA b : IsUnparsedLocation(b, pl))]

\* ------------------------------------------------------------------------
\* The stores of the modelled runs
\* ------------------------------------------------------------------------
\* raw artifact names by their parts: recordings/<subject>/<subject>-<date>
\* [-<suffix>].<ext>, a pseudo-directory, and a file that is no CSV
RawName(subject, date, suffix, ext) ==
    input_prefix \o <<subject, "/", subject, "-">> \o date
        \o (IF suffix = "" THEN <<>> ELSE <<"-", suffix>>) \o <<".", ext>>
Date1 == <<"20240101">>

\* the raw blobs a listing is drawn from, in the (lexicographic) order in
\* which list_blobs returns them
RawEntries ==
    <<[kind |-> "dir", name |-> input_prefix \o <<"u1", "/">>],
      [kind |-> "other", name |-> input_prefix \o <<"u1", "/", "notes", ".", "txt">>],
      [kind |-> "data", subject |-> "u1", date |-> Date1, suffix |-> "extra",
       name |-> RawName("u1", Date1, "extra", "CSV")],
      [kind |-> "location", subject |-> "u1", date |-> Date1, suffix |-> "location",
       name |-> RawName("u1", Date1, "location", "csv")],
      [kind |-> "data", subject |-> "u1", date |-> Date1, suffix |-> "",
       name |-> RawName("u1", Date1, "", "CSV")],
      [kind |-> "data", subject |-> "u1", date |-> Date1, suffix |-> "",
       name |-> RawName("u1", Date1, "", "csv")],
      [kind |-> "data", subject |-> "u1", date |-> <<"20240102">>,
       suffix |-> "20240101",
       name |-> RawName("u1", <<"20240102">>, "20240101", "csv")]>>

\* the parsed blobs that may exist before a run
ParsedName(subject, tag, stem, ext) ==
    output_prefix \o <<subject, "/", tag, "/">> \o stem \o <<".", ext>>
ParsedEntries ==
    {[kind |-> "short", name |-> output_prefix \o <<"u1", "/", "README">>],
     [kind |-> "tag", subject |-> "u1", tag |-> "HR", stem |-> Date1,
      name |-> ParsedName("u1", "HR", Date1, "csv")],
     [kind |-> "tag", subject |-> "u1", tag |-> "location", stem |-> Date1,
      name |-> ParsedName("u1", "location", Date1, "csv")],
     [kind |-> "tag", subject |-> "u1", tag |-> "HR",
      stem |-> Date1 \o <<"-", "extra">>,
      name |-> ParsedName("u1", "HR", Date1 \o <<"-", "extra">>, "csv")],
     [kind |-> "tag", subject |-> "u2", tag |-> "HR", stem |-> Date1,
      name |-> ParsedName("u2", "HR", Date1, "jsonl")]}

\* contents of raw data files: the rows csv.DictReader yields
Line(fields) ==
    LET RECURSIVE join(_)
        join(k) == IF k = 0 THEN <<>>
                   ELSE IF k = 1 THEN fields[1]
                   ELSE join(k - 1) \o <<",">> \o fields[k]
    IN join(Len(fields))
Row(iso, ms, lines) ==
    [timestamp_iso8601 |-> iso, timestamp_epoch_ms |-> ms,
     payload |-> [present |-> TRUE, lines |-> lines]]
RowWithoutPayload(iso, ms) ==
    [timestamp_iso8601 |-> iso, timestamp_epoch_ms |-> ms,
     payload |-> [present |-> FALSE]]
Ms1000 == <<"1", "0", "0", "0">>
Ms1024 == <<"1", "0", "2", "4">>
\* a stamp with a fraction, less than half a microsecond below a full second
Ms1999_9996 == <<"1", "9", "9", "9", ".", "9", "9", "9", "6">>
HrLine3 == Line(<<<<"x">>, <<"4", "2">>, <<"x">>, <<"HR">>, <<"x">>, <<"x">>,
                  <<"98.6">>, <<" ", "99.1">>, <<"99.4">>>>)
HrLine2 == Line(<<<<"x">>, <<"4", "3">>, <<"x">>, <<"HR">>, <<"x">>, <<"x">>,
                  <<"97.0">>, <<>>, <<"97.5">>>>)
HrLine1 == Line(<<<<"x">>, <<"4", "4">>, <<"x">>, <<"HR">>, <<"x">>, <<"x">>,
                  <<"98.0">>>>)
EaLine1 == Line(<<<<"x">>, <<>>, <<"x">>, <<"EA">>, <<"x">>, <<"x">>, <<"0.223">>>>)
ShortLine == Line(<<<<"x">>, <<"4", "5">>, <<"x">>, <<"HR">>, <<"x">>>>)

FileRows(content) ==
    CASE content = "two_tags" ->
            <<Row(<<"t0">>, Ms1000, <<HrLine3, <<" ">>, EaLine1>>),
              RowWithoutPayload(<<"t1">>, Ms1000),
              Row(<<"t2">>, Ms1024, <<HrLine1>>),
              Row(<<"t3">>, Ms1999_9996, <<HrLine2>>)>>
      [] content = "unsorted" ->
            <<Row(<<"t2">>, Ms1024, <<HrLine2>>),
              Row(<<"t0">>, Ms1000, <<HrLine1>>)>>
      [] content = "short_line" ->
            <<Row(<<"t0">>, Ms1000, <<HrLine1, ShortLine>>)>>
      [] content = "header_only" -> <<>>
      [] OTHER -> <<>>
DataContents == {"two_tags", "unsorted", "short_line", "header_only"}

\* ------------------------------------------------------------------------
\* State
\* ------------------------------------------------------------------------
VARIABLES
    raw,            \* raw store: blob name -> content
    parsed,         \* parsed store: blob name -> uploaded content
    output_format,  \* environment variable OUTPUT_FORMAT
    pc,             \* position of main: start, data, loc, done, crashed
    data_files,     \* main: first result of get_unparsed_files
    location_files, \* main: second result of get_unparsed_files
    di,             \* main: 1-based position in the list being looped over
    success_count,  \* main
    error_count,    \* main
    exit_status,    \* what the process exits with (-1 while running)
    cur,            \* the blob process_file / move_location_file works on
    ppc,            \* position inside process_file / move_location_file
    gen,            \* process_file: records taken from the parse_file generator
    records_by_tag, \* process_file: insertion-ordered groups
    ti,             \* process_file: 1-based position in records_by_tag.items()
    out_file,       \* process_file: the file written for the current tag
    upload_count,   \* process_file
    expand_arg,     \* the latest expand_payload_records call: blob and argument
    stage,          \* stage of every selected artifact
    exc,            \* the exception that ended main, if any
    xin,            \* the record sequence given to expand_payload_records alone
    xout,           \* the sequence it returned
    xpc,            \* "call" before that call, "ret" after it, "off" otherwise
    args_input,     \* parse_payload.main: the rows of the file args.input
    args_format,    \* parse_payload.main: args.format
    output_stream,  \* parse_payload.main: what was written to the stream
    cli_gen,        \* parse_payload.main: records taken from the generator
    cli_pc,         \* parse_payload.main: start, write, exit, exit_120,
                    \* traceback; or off
    block,          \* the argument of parse_payload_block called alone
    block_result,   \* what that call yielded and raised
    block_pc        \* "call" before that call, "ret" after it, "off" otherwise

env == <<raw, output_format>>
plan == <<data_files, location_files>>
counts == <<success_count, error_count>>
locals == <<gen, records_by_tag, ti, out_file, upload_count>>
xvars == <<xin, xout, xpc>>
cvars == <<args_input, args_format, output_stream, cli_gen, cli_pc>>
bvars == <<block, block_result, block_pc>>
\* the variables of the programs and functions that run on their own
alone == <<xvars, cvars, bvars>>
vars == <<raw, parsed, output_format, pc, data_files, location_files, di,
          success_count, error_count, exit_status, cur, ppc, gen,
          records_by_tag, ti, out_file, upload_count, expand_arg, stage, exc,
          xin, xout, xpc, args_input, args_format, output_stream, cli_gen,
          cli_pc, block, block_result, block_pc>>

NoBlob == <<>>
NoFile == [kind |-> "none"]
NoException == [raised |-> FALSE]
NoCall == [blob |-> NoBlob, records |-> <<>>]
NoStream == [header |-> <<>>, lines |-> <<>>]
NoResult == [records |-> <<>>, error |-> NoError]

\* parse_payload.main is not running
CliOff ==
    /\ args_input = <<>>
    /\ args_format = "csv"
    /\ output_stream = NoStream
    /\ cli_gen = 0
    /\ cli_pc = "off"

\* parse_payload_block is not being called on its own
BlockOff ==
    /\ block = <<>>
    /\ block_result = NoResult
    /\ block_pc = "off"

\* ------------------------------------------------------------------------
\* Bounds of the batch runs
\* ------------------------------------------------------------------------
MaxRaw == 3       \* most blobs under recordings/
MaxParsed == 1    \* most blobs under parsed/ before the run

SeqRange(seq) == {seq[i] : i \in 1..Len(seq)}
SubsetsUpTo(S, n) == {T \in SUBSET S : Cardinality(T) <= n}

\* contents a raw blob of the given kind may have; the data file that
\* differs from another only in the case of its extension is either
\* well-formed or has a malformed line
ContentsOf(entry) ==
    CASE entry.kind = "data" /\ entry.name = RawName("u1", Date1, "", "CSV") ->
            {"two_tags", "short_line"}
      [] entry.kind = "data" -> DataContents
      [] entry.kind = "location" -> {"gps_track"}
      [] OTHER -> {"empty"}

RawStores ==
    UNION {
        {f \in [{e.name : e \in T} -> DataContents \cup {"gps_track", "empty"}] :
            \A e \in T : f[e.name] \in ContentsOf(e)} :
        T \in SubsetsUpTo(SeqRange(RawEntries), MaxRaw)}

ParsedStores ==
    {[n \in {e.name : e \in T} |-> [kind |-> "old"]] :
        T \in SubsetsUpTo(ParsedEntries, MaxParsed)}

\* bucket.list_blobs(prefix=input_prefix)
Listing ==
    LET RECURSIVE listed(_)
        listed(k) == IF k = 0 THEN <<>>
                     ELSE IF RawEntries[k].name \in DOMAIN raw
                          THEN Append(listed(k - 1), RawEntries[k].name)
                     ELSE listed(k - 1)
    IN listed(Len(RawEntries))

\* upload_from_filename: create or overwrite the blob
Put(store, name, content) ==
    [n \in DOMAIN store \cup {name} |-> IF n = name THEN content ELSE store[n]]

\* records_by_tag[type_tag].append(record), keeping dict insertion order
AddToGroup(groups, record) ==
    IF \E k \in 1..Len(groups) : groups[k].type_tag = record.type_tag
    THEN [k \in 1..Len(groups) |->
            IF groups[k].type_tag = record.type_tag
            THEN [groups[k] EXCEPT !.records = Append(@, record)]
            ELSE groups[k]]
    ELSE Append(groups, [type_tag |-> record.type_tag, records |-> <<record>>])

\* the file process_file writes for one type tag
expanded_fieldnames ==
    <<"timestamp_iso8601", "timestamp_epoch_ms", "packet", "payload">>
WrittenFile(fmt, expanded_records) ==
    IF fmt = "jsonl"
    THEN [kind |-> "jsonl", content_type |-> ContentType(fmt),
          rows |-> expanded_records]
    ELSE [kind |-> "csv", content_type |-> ContentType(fmt),
          header |-> expanded_fieldnames, rows |-> expanded_records]

\* what the parse_file generator does on a file of each content
Traces ==
    [content \in DataContents \cup {"gps_track", "empty"} |->
        parse_file(FileRows(content))]

\* what the parse_file generator does on the current blob
Trace == Traces[raw[cur]]

\* ------------------------------------------------------------------------
\* process_firebase_files.expand_payload_records (the whole list)
\* ------------------------------------------------------------------------
\* the records given to the expander on its own
SampleValues == <<<<"98.6">>, <<"99.1">>, <<"99.4">>, <<"99.9">>, <<"100.2">>>>
PayloadPool == {SubSeq(SampleValues, 1, k) : k \in 0..MaxVals}
\* 1000.0000000000001 is the float next above 1000
TsPool ==
    {None, IntV(1000), IntV(1024),
     FloatOf(<<"1", "0", "0", "0", ".", "0", "0", "0", "0", "0", "0", "0",
               "0", "0", "0", "0", "0", "1">>)}
RecordPool ==
    [timestamp_iso8601 : {StrV(<<"iso">>)},
     timestamp_epoch_ms : TsPool,
     packet : {IntV(42)},
     type_tag : {<<"HR">>},
     payload : PayloadPool]

\* the records parse_file yields from the files of the batch
BatchRecords ==
    UNION {{trace.records[k] : k \in 1..Len(trace.records)} :
           trace \in {Traces[content] :
                         content \in DataContents \cup {"gps_track", "empty"}}}

\* The rows appended for a record depend on the record and on its successor
\* only; those of the records above are computed once (the function is
\* combined with the empty one so that it is kept as a table).
ExpandedWindows ==
    LET Windows(S) == [1..1 -> S] \cup [1..2 -> S]
    IN [w \in Windows(RecordPool) \cup Windows(BatchRecords) |->
           ExpandRecord(w, 1)] @@ <<>>

expand_payload_records(records) ==
    LET \* the rows appended for record i, taken from the table when it has
        \* them
        rows(table, i) ==
            IF SubSeq(records, i, IF i < Len(records) THEN i + 1 ELSE i)
                  \in DOMAIN table
            THEN table[SubSeq(records, i, IF i < Len(records) THEN i + 1 ELSE i)]
            ELSE ExpandRecord(records, i)
        RECURSIVE go(_, _)
        go(i, expanded) ==
            IF i > Len(records) THEN expanded
            ELSE go(i + 1, expanded \o rows(ExpandedWindows, i))
    IN go(1, <<>>)

Init ==
    /\ raw \in RawStores
    /\ parsed \in ParsedStores
    /\ output_format \in {"csv", "jsonl", "xml"}
    /\ pc = "start"
    /\ data_files = <<>>
    /\ location_files = <<>>
    /\ di = 1
    /\ success_count = 0
    /\ error_count = 0
    /\ exit_status = -1
    /\ cur = NoBlob
    /\ ppc = "idle"
    /\ gen = 0
    /\ records_by_tag = <<>>
    /\ ti = 0
    /\ out_file = NoFile
    /\ upload_count = 0
    /\ expand_arg = NoCall
    /\ stage = <<>>
    /\ exc = NoException
    /\ xin = <<>>
    /\ xout = <<>>
    /\ xpc = "off"
    /\ CliOff
    /\ BlockOff

\* ------------------------------------------------------------------------
\* main
\* ------------------------------------------------------------------------
\* if output_format not in ("csv", "jsonl"): return 1
Main_InvalidFormat ==
    /\ pc = "start"
    /\ output_format \notin {"csv", "jsonl"}
    /\ pc' = "done"
    /\ exit_status' = 1
    /\ UNCHANGED <<env, parsed, plan, di, counts, cur, ppc, locals,
                   expand_arg, stage, exc, alone>>

\* data_files, location_files = get_unparsed_files(...); return 0 when both
\* are empty
Main_Plan ==
    /\ pc = "start"
    /\ output_format \in {"csv", "jsonl"}
    /\ LET found == get_unparsed_files(Listing, DOMAIN parsed)
       IN /\ data_files' = found.data_files
          /\ location_files' = found.location_files
          /\ IF found.data_files = <<>> /\ found.location_files = <<>>
             THEN /\ pc' = "done"
                  /\ exit_status' = 0
                  /\ stage' = stage
             ELSE /\ pc' = "data"
                  /\ exit_status' = exit_status
                  /\ stage' = [a \in SeqRange(found.data_files)
                                     \cup SeqRange(found.location_files)
                                 |-> "Pending"]
    /\ di' = 1
    /\ UNCHANGED <<env, parsed, counts, cur, ppc, locals, expand_arg, exc,
                   alone>>

\* (mutation) a blob whose processing returned False is taken up again
IndexAfter_RetriesFailed(i, ok) == IF ok THEN i + 1 ELSE i

\* the for loops of main step to the next blob whatever was returned
IndexAfter(i, ok) == i + 1

\* process_file / move_location_file returns ok to the loop of main
Return(ok) ==
    /\ stage' = [stage EXCEPT ![cur] = IF ok THEN "Done" ELSE "Failed"]
    /\ success_count' = IF ok THEN success_count + 1 ELSE success_count
    /\ error_count' = IF ok THEN error_count ELSE error_count + 1
    /\ di' = IndexAfter(di, ok)
    /\ cur' = NoBlob
    /\ ppc' = "idle"
    /\ gen' = 0
    /\ records_by_tag' = <<>>
    /\ ti' = 0
    /\ out_file' = NoFile
    /\ upload_count' = 0

\* an exception no handler catches leaves main: the process dies
Uncaught(op) ==
    /\ pc' = "crashed"
    /\ exc' = [raised |-> TRUE, blob |-> cur, op |-> op]
    /\ exit_status' = 1
    /\ UNCHANGED <<env, parsed, plan, di, counts, cur, ppc, locals,
                   expand_arg, stage, alone>>

\* the loop over data_files is exhausted
Main_DataDone ==
    /\ pc = "data"
    /\ ppc = "idle"
    /\ di > Len(data_files)
    /\ pc' = "loc"
    /\ di' = 1
    /\ UNCHANGED <<env, parsed, plan, counts, exit_status, cur, ppc, locals,
                   expand_arg, stage, exc, alone>>

\* (mutation) the status does not depend on the errors counted
ReturnStatus_AlwaysZero(errors) == 0

\* return 1 if error_count > 0 else 0
ReturnStatus(errors) == IF errors > 0 THEN 1 ELSE 0

\* the loop over location_files is exhausted: print the summary and return
Main_Summary ==
    /\ pc = "loc"
    /\ ppc = "idle"
    /\ di > Len(location_files)
    /\ pc' = "done"
    /\ exit_status' = ReturnStatus(error_count)
    /\ UNCHANGED <<env, parsed, plan, di, counts, cur, ppc, locals,
                   expand_arg, stage, exc, alone>>

\* ------------------------------------------------------------------------
\* process_file
\* ------------------------------------------------------------------------
\* main calls process_file(blob, ...)
PF_Start ==
    /\ pc = "data"
    /\ ppc = "idle"
    /\ di <= Len(data_files)
    /\ cur' = data_files[di]
    /\ ppc' = "download"
    /\ stage' = [stage EXCEPT ![data_files[di]] = "Downloading"]
    /\ UNCHANGED <<env, parsed, pc, plan, di, counts, exit_status, locals,
                   expand_arg, exc, alone>>

\* blob.download_to_filename succeeds
PF_Download ==
    /\ pc = "data"
    /\ ppc = "download"
    /\ ppc' = "parse"
    /\ stage' = [stage EXCEPT ![cur] = "Parsing"]
    /\ UNCHANGED <<env, parsed, pc, plan, di, counts, exit_status, cur,
                   locals, expand_arg, exc, alone>>

\* blob.download_to_filename raises: nothing in process_file or main catches
PF_DownloadFails ==
    /\ pc = "data"
    /\ ppc = "download"
    /\ Uncaught("download")

\* the generator yields the next record
PF_ParseYield ==
    /\ pc = "data"
    /\ ppc = "parse"
    /\ gen < Len(Trace.records)
    /\ gen' = gen + 1
    /\ ppc' = "group"
    /\ stage' = [stage EXCEPT ![cur] = "Grouping"]
    /\ UNCHANGED <<env, parsed, pc, plan, di, counts, exit_status, cur,
                   records_by_tag, ti, out_file, upload_count, expand_arg,
                   exc, alone>>

\* records_by_tag[type_tag].append(record)
PF_Group ==
    /\ pc = "data"
    /\ ppc = "group"
    /\ records_by_tag' = AddToGroup(records_by_tag, Trace.records[gen])
    /\ ppc' = "parse"
    /\ stage' = [stage EXCEPT ![cur] = "Parsing"]
    /\ UNCHANGED <<env, parsed, pc, plan, di, counts, exit_status, cur, gen,
                   ti, out_file, upload_count, expand_arg, exc, alone>>

\* (mutation) the parse error is not caught
PF_ParseError_Uncaught ==
    /\ pc = "data"
    /\ ppc = "parse"
    /\ gen = Len(Trace.records)
    /\ Trace.error.raised
    /\ Uncaught("parse")

\* the generator raises: except Exception -> return False
PF_ParseError ==
    /\ pc = "data"
    /\ ppc = "parse"
    /\ gen = Len(Trace.records)
    /\ Trace.error.raised
    /\ Return(FALSE)
    /\ UNCHANGED <<env, parsed, pc, plan, exit_status, expand_arg, exc, alone>>

\* the generator is exhausted and nothing was grouped: return True
PF_NoRecords ==
    /\ pc = "data"
    /\ ppc = "parse"
    /\ gen = Len(Trace.records)
    /\ ~Trace.error.raised
    /\ records_by_tag = <<>>
    /\ Return(TRUE)
    /\ UNCHANGED <<env, parsed, pc, plan, exit_status, expand_arg, exc, alone>>

\* (mutation) the loop over the groups is entered as soon as a record has
\* been grouped, before the generator is exhausted
PF_ParseDone_BeforeExhausted ==
    /\ pc = "data"
    /\ ppc = "parse"
    /\ records_by_tag # <<>>
    /\ ti' = 1
    /\ ppc' = "serialize"
    /\ stage' = [stage EXCEPT ![cur] = "Serializing"]
    /\ UNCHANGED <<env, parsed, pc, plan, di, counts, exit_status, cur, gen,
                   records_by_tag, out_file, upload_count, expand_arg, exc,
                   alone>>

\* the generator is exhausted: enter the loop over records_by_tag.items()
PF_ParseDone ==
    /\ pc = "data"
    /\ ppc = "parse"
    /\ gen = Len(Trace.records)
    /\ ~Trace.error.raised
    /\ records_by_tag # <<>>
    /\ ti' = 1
    /\ ppc' = "serialize"
    /\ stage' = [stage EXCEPT ![cur] = "Serializing"]
    /\ UNCHANGED <<env, parsed, pc, plan, di, counts, exit_status, cur, gen,
                   records_by_tag, out_file, upload_count, expand_arg, exc,
                   alone>>

\* expand the group of the current tag and write its file
PF_Serialize ==
    /\ pc = "data"
    /\ ppc = "serialize"
    /\ expand_arg' = [blob |-> cur, records |-> records_by_tag[ti].records]
    /\ out_file' = WrittenFile(output_format,
                       expand_payload_records(records_by_tag[ti].records))
    /\ ppc' = "upload"
    /\ stage' = [stage EXCEPT ![cur] = "Uploading"]
    /\ UNCHANGED <<env, parsed, pc, plan, di, counts, exit_status, cur, gen,
                   records_by_tag, ti, upload_count, exc, alone>>

\* output_blob.upload_from_filename succeeds; next tag, or return True
PF_Upload ==
    /\ pc = "data"
    /\ ppc = "upload"
    /\ parsed' = Put(parsed,
                     DataOutputName(cur, records_by_tag[ti].type_tag,
                                    output_format),
                     out_file)
    /\ IF ti < Len(records_by_tag)
       THEN /\ ti' = ti + 1
            /\ upload_count' = upload_count + 1
            /\ ppc' = "serialize"
            /\ stage' = [stage EXCEPT ![cur] = "Serializing"]
            /\ UNCHANGED <<di, counts, cur, gen, records_by_tag, out_file>>
       ELSE Return(TRUE)
    /\ UNCHANGED <<env, pc, plan, exit_status, expand_arg, exc, alone>>

\* output_blob.upload_from_filename raises: nothing catches
PF_UploadFails ==
    /\ pc = "data"
    /\ ppc = "upload"
    /\ Uncaught("upload")

\* ------------------------------------------------------------------------
\* move_location_file
\* ------------------------------------------------------------------------
\* main calls move_location_file(blob, ...)
ML_Start ==
    /\ pc = "loc"
    /\ ppc = "idle"
    /\ di <= Len(location_files)
    /\ cur' = location_files[di]
    /\ ppc' = "download"
    /\ stage' = [stage EXCEPT ![location_files[di]] = "Downloading"]
    /\ UNCHANGED <<env, parsed, pc, plan, di, counts, exit_status, locals,
                   expand_arg, exc, alone>>

\* blob.download_to_filename succeeds
ML_Download ==
    /\ pc = "loc"
    /\ ppc = "download"
    /\ out_file' = [kind |-> "copy", content_type |-> "text/csv",
                    content |-> raw[cur]]
    /\ ppc' = "upload"
    /\ stage' = [stage EXCEPT ![cur] = "Uploading"]
    /\ UNCHANGED <<env, parsed, pc, plan, di, counts, exit_status, cur, gen,
                   records_by_tag, ti, upload_count, expand_arg, exc, alone>>

\* blob.download_to_filename raises
ML_DownloadFails ==
    /\ pc = "loc"
    /\ ppc = "download"
    /\ Uncaught("download")

\* output_blob.upload_from_filename succeeds: return True
ML_Upload ==
    /\ pc = "loc"
    /\ ppc = "upload"
    /\ parsed' = Put(parsed, LocationOutputName(cur), out_file)
    /\ Return(TRUE)
    /\ UNCHANGED <<env, pc, plan, exit_status, expand_arg, exc, alone>>

\* output_blob.upload_from_filename raises
ML_UploadFails ==
    /\ pc = "loc"
    /\ ppc = "upload"
    /\ Uncaught("upload")

Next ==
    \/ Main_InvalidFormat
    \/ Main_Plan
    \/ Main_DataDone
    \/ Main_Summary
    \/ PF_Start
    \/ PF_Download
    \/ PF_DownloadFails
    \/ PF_ParseYield
    \/ PF_Group
    \/ PF_ParseError
    \/ PF_NoRecords
    \/ PF_ParseDone
    \/ PF_Serialize
    \/ PF_Upload
    \/ PF_UploadFails
    \/ ML_Start
    \/ ML_Download
    \/ ML_DownloadFails
    \/ ML_Upload
    \/ ML_UploadFails

Spec == Init /\ [][Next]_vars

\* ------------------------------------------------------------------------
\* The expander on its own: every bounded record sequence
\* ------------------------------------------------------------------------
SeqsUpTo(S, n) == UNION {[1..k -> S] : k \in 0..n}


batch == <<raw, parsed, output_format, pc, data_files, location_files, di,
           success_count, error_count, exit_status, cur, ppc, gen,
           records_by_tag, ti, out_file, upload_count, expand_arg, stage, exc>>

InitExpand ==
    /\ xin \in SeqsUpTo(RecordPool, MaxRecs)
    /\ xout = <<>>
    /\ xpc = "call"
    /\ raw = <<>>
    /\ parsed = <<>>
    /\ output_format = "csv"
    /\ pc = "off"
    /\ data_files = <<>>
    /\ location_files = <<>>
    /\ di = 1
    /\ success_count = 0
    /\ error_count = 0
    /\ exit_status = -1
    /\ cur = NoBlob
    /\ ppc = "idle"
    /\ gen = 0
    /\ records_by_tag = <<>>
    /\ ti = 0
    /\ out_file = NoFile
    /\ upload_count = 0
    /\ expand_arg = NoCall
    /\ stage = <<>>
    /\ exc = NoException
    /\ CliOff
    /\ BlockOff

ExpandCall ==
    /\ xpc = "call"
    /\ xout' = expand_payload_records(xin)
    /\ xpc' = "ret"
    /\ UNCHANGED <<xin, batch, cvars, bvars>>

NextExpand == ExpandCall

SpecExpand == InitExpand /\ [][NextExpand]_vars

\* ------------------------------------------------------------------------
\* parse_payload.main: the command-line parser, run on its own
\* ------------------------------------------------------------------------
MaxRows == 2        \* most rows of the file given to the command-line parser

\* main is not running
BatchOff ==
    /\ raw = <<>>
    /\ parsed = <<>>
    /\ output_format = "csv"
    /\ pc = "off"
    /\ data_files = <<>>
    /\ location_files = <<>>
    /\ di = 1
    /\ success_count = 0
    /\ error_count = 0
    /\ exit_status = -1
    /\ cur = NoBlob
    /\ ppc = "idle"
    /\ gen = 0
    /\ records_by_tag = <<>>
    /\ ti = 0
    /\ out_file = NoFile
    /\ upload_count = 0
    /\ expand_arg = NoCall
    /\ stage = <<>>
    /\ exc = NoException

\* expand_payload_records is not being called on its own
ExpandOff ==
    /\ xin = <<>>
    /\ xout = <<>>
    /\ xpc = "off"

FIELDNAMES == <<"timestamp_iso8601", "timestamp_epoch_ms", "packet", "payload">>

\* json.dumps([str(v) for v in values], ...): one JSON array of strings
serialize_payload(values) == [t |-> "json_array", items |-> values]

\* write_jsonl: json.dumps(record) writes every key of the record
JsonlLine(record) == record

\* write_csv: row = dict(record); row["payload"] = serialize_payload(...);
\* DictWriter(fieldnames=FIELDNAMES, extrasaction="ignore").writerow(row)
CsvRow(record) ==
    [f \in SeqRange(FIELDNAMES) |->
        IF f = "payload" THEN serialize_payload(record.payload) ELSE record[f]]

\* the rows a file given to the command-line parser is made of
RowPool ==
    {Row(<<"t0">>, Ms1000, <<HrLine3, <<" ">>, EaLine1>>),
     RowWithoutPayload(<<"t1">>, Ms1000),
     Row(<<"t2">>, Ms1024, <<HrLine1>>),
     Row(<<"t3">>, <<>>, <<HrLine2>>),
     Row(<<"t4">>, Ms1024, <<HrLine1, ShortLine>>)}

\* what the parse_file generator does on args.input
CliTrace == parse_file(args_input)

InitCli ==
    /\ args_input \in SeqsUpTo(RowPool, MaxRows)
    /\ args_format \in {"csv", "jsonl"}
    /\ output_stream = NoStream
    /\ cli_gen = 0
    /\ cli_pc = "start"
    /\ BatchOff
    /\ ExpandOff
    /\ BlockOff

\* write_jsonl / write_csv is entered; write_csv writes the header first
CLI_Begin ==
    /\ cli_pc = "start"
    /\ output_stream' = [header |-> IF args_format = "jsonl" THEN <<>>
                                    ELSE FIELDNAMES,
                         lines |-> <<>>]
    /\ cli_pc' = "write"
    /\ UNCHANGED <<args_input, args_format, cli_gen, batch, xvars, bvars>>

\* for record in records: the generator yields and the record is written
CLI_Write ==
    /\ cli_pc = "write"
    /\ cli_gen < Len(CliTrace.records)
    /\ output_stream' =
          [output_stream EXCEPT !.lines =
              Append(@, IF args_format = "jsonl"
                        THEN JsonlLine(CliTrace.records[cli_gen + 1])
                        ELSE CsvRow(CliTrace.records[cli_gen + 1]))]
    /\ cli_gen' = cli_gen + 1
    /\ UNCHANGED <<args_input, args_format, cli_pc, batch, xvars, bvars>>

\* writer.writeheader() raises BrokenPipeError: sys.exit(0), nothing written
CLI_BrokenPipeHeader ==
    /\ cli_pc = "start"
    /\ args_format = "csv"
    /\ cli_pc' = "exit"
    /\ UNCHANGED <<args_input, args_format, output_stream, cli_gen, batch,
                   xvars, bvars>>

\* the generator yields a record and the write of it raises
\* BrokenPipeError: sys.exit(0)
CLI_BrokenPipe ==
    /\ cli_pc = "write"
    /\ cli_gen < Len(CliTrace.records)
    /\ cli_gen' = cli_gen + 1
    /\ cli_pc' = "exit"
    /\ UNCHANGED <<args_input, args_format, output_stream, batch, xvars,
                   bvars>>

\* the generator is exhausted: the writer returns and main ends
CLI_Finish ==
    /\ cli_pc = "write"
    /\ cli_gen = Len(CliTrace.records)
    /\ ~CliTrace.error.raised
    /\ cli_pc' = "exit"
    /\ UNCHANGED <<args_input, args_format, output_stream, cli_gen, batch,
                   xvars, bvars>>

\* the generator raises ValueError: main catches BrokenPipeError only
CLI_ParseError ==
    /\ cli_pc = "write"
    /\ cli_gen = Len(CliTrace.records)
    /\ CliTrace.error.raised
    /\ cli_pc' = "traceback"
    /\ UNCHANGED <<args_input, args_format, output_stream, cli_gen, batch,
                   xvars, bvars>>

\* main has returned or ended in the traceback, with every write held in
\* the buffer of standard output, and the interpreter cannot flush that
\* buffer at its exit: the status becomes 120
CLI_FlushFails ==
    /\ cli_pc \in {"exit", "traceback"}
    /\ Len(output_stream.lines) = cli_gen
    /\ args_format = "csv" => output_stream.header = FIELDNAMES
    /\ output_stream # NoStream
    /\ cli_pc' = "exit_120"
    /\ UNCHANGED <<args_input, args_format, output_stream, cli_gen, batch,
                   xvars, bvars>>

NextCli ==
    \/ CLI_Begin
    \/ CLI_BrokenPipeHeader
    \/ CLI_FlushFails
    \/ CLI_Write
    \/ CLI_BrokenPipe
    \/ CLI_Finish
    \/ CLI_ParseError

SpecCli == InitCli /\ [][NextCli]_vars

\* ------------------------------------------------------------------------
\* parse_payload.parse_payload_block on its own: every bounded payload blob
\* ------------------------------------------------------------------------
MaxLines == 3       \* most lines of a payload blob

\* a line of 3 fields with a blank on either side
PaddedShortLine == <<" ">> \o Line(<<<<"x">>, <<"4", "6">>, <<"x">>>>) \o <<" ">>

LinePool == {HrLine1, EaLine1, ShortLine, PaddedShortLine, <<" ">>, <<>>}

InitBlock ==
    /\ block \in SeqsUpTo(LinePool, MaxLines)
    /\ block_result = NoResult
    /\ block_pc = "call"
    /\ BatchOff
    /\ ExpandOff
    /\ CliOff

\* list(parse_payload_block(block)), with the exception it ends in, if any
BlockCall ==
    /\ block_pc = "call"
    /\ block_result' = parse_payload_block(block)
    /\ block_pc' = "ret"
    /\ UNCHANGED <<block, batch, xvars, cvars>>

NextBlock == BlockCall

SpecBlock == InitBlock /\ [][NextBlock]_vars

\* ------------------------------------------------------------------------
\* Properties of the expander (checked under SpecExpand)
\* ------------------------------------------------------------------------
\* number of payload values of records 1..n
ValuesBefore(records, n) ==
    LET RECURSIVE sum(_)
        sum(k) == IF k = 0 THEN 0 ELSE sum(k - 1) + Len(records[k].payload)
    IN sum(n)

\* all payload values of the records, in input order
AllValues(records) ==
    LET RECURSIVE cat(_)
        cat(k) == IF k = 0 THEN <<>> ELSE cat(k - 1) \o records[k].payload
    IN cat(Len(records))

\* the rows of xout that come from record i of xin
RowsOf(i) ==
    SubSeq(xout, ValuesBefore(xin, i - 1) + 1, ValuesBefore(xin, i))

\* -1, 0 or 1 as the number a is below, equal to or above the number b
NumCmp(a, b) ==
    LET am == IF a.t = "int" THEN a.mag ELSE a.man
        bm == IF b.t = "int" THEN b.mag ELSE b.man
        ae == IF a.t = "int" THEN 0 ELSE a.exp
        be == IF b.t = "int" THEN 0 ELSE b.exp
        e == IF ae < be THEN ae ELSE be
        d == SignedSum(a.neg, BigShl(am, ae - e), ~b.neg, BigShl(bm, be - e))
    IN IF d.mag = <<>> THEN 0 ELSE IF d.neg THEN -1 ELSE 1

\* comparisons of numbers, by their exact values
NumLt(a, b) == NumCmp(a, b) < 0
NumLe(a, b) == NumCmp(a, b) <= 0
NumEq(a, b) == NumCmp(a, b) = 0

\* records with more than one value
Multi == {i \in 1..Len(xin) : Len(xin[i].payload) > 1}
\* ... whose own and whose successor's timestamp are both known
MultiKnown ==
    {i \in Multi : /\ i < Len(xin)
                   /\ xin[i].timestamp_epoch_ms # None
                   /\ xin[i + 1].timestamp_epoch_ms # None}

\* the expander's documented precondition: known timestamps ascend
SortedByTs(records) ==
    \A a, b \in 1..Len(records) :
        (/\ a < b
         /\ records[a].timestamp_epoch_ms # None
         /\ records[b].timestamp_epoch_ms # None)
        => NumLe(records[a].timestamp_epoch_ms, records[b].timestamp_epoch_ms)

TwoTo41 == DoubleNorm(FALSE, <<1>>, 41)
BelowTwoTo41(v) == NumLt(DoubleNeg(TwoTo41), v) /\ NumLt(v, TwoTo41)
Resolved(i) ==
    LET this == xin[i].timestamp_epoch_ms
        next == xin[i + 1].timestamp_epoch_ms
    IN /\ Len(xin[i].payload) <= 1024
       /\ BelowTwoTo41(this) /\ BelowTwoTo41(next)
       /\ \/ NumLe(IntV(1), Minus(next, this))
          \/ NumLe(IntV(1), Minus(this, next))

C8_CountPreserved ==
    xpc = "ret" =>
        /\ Len(xout) = ValuesBefore(xin, Len(xin))
        /\ [k \in 1..Len(xout) |-> xout[k].payload] = AllValues(xin)

\* witness of C8: a group holding an empty, a single-value and a multi-value
\* record has been expanded
C8_Witness ==
    /\ xpc = "ret"
    /\ \E i \in 1..Len(xin) : Len(xin[i].payload) = 0
    /\ \E i \in 1..Len(xin) : Len(xin[i].payload) = 1
    /\ \E i \in 1..Len(xin) : Len(xin[i].payload) > 1
    /\ Len(xout) = ValuesBefore(xin, Len(xin))

\* the interval the claim prescribes for record i
ClaimedInterval(i) ==
    IF i \in MultiKnown
    THEN TrueDiv(Minus(xin[i + 1].timestamp_epoch_ms,
                       xin[i].timestamp_epoch_ms),
                 Len(xin[i].payload))
    ELSE FloatV(8, 1)

\* a whole number of machine size as a machine number
Whole(v) == (IF v.neg THEN -1 ELSE 1) * NatOfBig(v.mag)

\* C9: for a record with k > 1 values the interval is (next.ts - this.ts) / k
\* when the record is not the last and both timestamps are present, and 8 ms
\* otherwise; value j gets this.ts + j * interval (in the arithmetic of the
\* program: floats), or null for every j when this.ts is null; values keep
\* their input order.  Where both timestamps are whole numbers and k divides
\* their difference, value j gets the whole number this.ts + j * d / k.
C9_Interpolation ==
    xpc = "ret" =>
        \A i \in Multi :
            LET rows == RowsOf(i)
                this == xin[i].timestamp_epoch_ms
                iv == ClaimedInterval(i)
                k == Len(xin[i].payload)
            IN /\ Len(rows) = k
               /\ \A j \in 1..Len(rows) :
                     /\ rows[j].payload = xin[i].payload[j]
                     /\ IF this = None
                        THEN rows[j].timestamp_epoch_ms = None
                        ELSE rows[j].timestamp_epoch_ms
                                = Plus(this, Times(j - 1, iv))
               /\ (/\ i \in MultiKnown
                   /\ this.t = "int"
                   /\ xin[i + 1].timestamp_epoch_ms.t = "int") =>
                     LET d == Whole(xin[i + 1].timestamp_epoch_ms) - Whole(this)
                     IN d % k = 0 =>
                           \A j \in 1..Len(rows) :
                               rows[j].timestamp_epoch_ms
                                  = FloatV(Whole(this) + (j - 1) * (d \div k), 1)

\* witness of C9: the example of the claim -- 3 values at 1000 ms followed
\* by a record at 1024 ms give 1000, 1008, 1016 with the values in order
C9_Witness ==
    /\ xpc = "ret"
    /\ Len(xin) = 2
    /\ xin[1].timestamp_epoch_ms = IntV(1000)
    /\ xin[1].payload = <<<<"98.6">>, <<"99.1">>, <<"99.4">>>>
    /\ xin[2].timestamp_epoch_ms = IntV(1024)
    /\ Len(xin[2].payload) = 0
    /\ [k \in 1..Len(xout) |-> xout[k].timestamp_epoch_ms]
          = <<FloatV(1000, 1), FloatV(1008, 1), FloatV(1016, 1)>>
    /\ [k \in 1..Len(xout) |-> xout[k].timestamp_iso8601.ms] = <<0, 8, 16>>
    /\ [k \in 1..Len(xout) |-> xout[k].payload] = xin[1].payload

\* ------------------------------------------------------------------------
\* Properties of the batch run (checked under Spec)
\* ------------------------------------------------------------------------
\* the parts a raw blob name was built from
RawEntryOf(name) == CHOOSE e \in SeqRange(RawEntries) : e.name = name
IsArtifact(name) == RawEntryOf(name).kind \in {"data", "location"}
IsLocationArtifact(name) == RawEntryOf(name).kind = "location"

\* every parsed blob name that can exist, with the parts it is built from
ParsedUniverse ==
    {e \in ParsedEntries : e.kind = "short"} \cup
    {[kind |-> "tag", subject |-> sub, tag |-> tag, stem |-> stem,
      name |-> ParsedName(sub, tag, stem, ext)] :
        sub \in {"u1", "u2"}, tag \in {"HR", "EA", "location"},
        stem \in {Date1, <<"extra">>, Date1 \o <<"-", "extra">>},
        ext \in {"csv", "jsonl"}}
ParsedEntryOf(name) == CHOOSE e \in ParsedUniverse : e.name = name

\* keys (subject, date, location flag) decoded from the parsed listing
ParsedKeys ==
    {<<e.subject, e.stem, e.tag = "location">> :
        e \in {x \in {ParsedEntryOf(n) : n \in DOMAIN parsed} : x.kind = "tag"}}

\* the work list the planner returns in the current state of the stores
WorkList ==
    LET found == get_unparsed_files(Listing, DOMAIN parsed)
    IN SeqRange(found.data_files) \cup SeqRange(found.location_files)

\* key of a raw artifact: subject, date, location flag
RawKey(name) ==
    LET e == RawEntryOf(name)
    IN <<e.subject, e.date, e.suffix = "location">>

\* C1 (as stated): after a run of main in which every selected artifact was
\* processed successfully, planning again on the unchanged raw listing and
\* the parsed listing the run produced gives an empty work list.
C1_Idempotent ==
    (/\ pc = "done"
     /\ output_format \in {"csv", "jsonl"}
     /\ error_count = 0
     /\ success_count = Len(data_files) + Len(location_files))
    => WorkList = {}

\* C2 (as stated): the work list is exactly the raw CSV artifacts whose key
\* (subject, date, location flag) is absent from the keys decoded from the
\* parsed listing: no artifact whose key is present is returned and none
\* whose key is absent is omitted.
C2_Original ==
    pc # "off" =>
        WorkList = {n \in DOMAIN raw : IsArtifact(n) /\ RawKey(n) \notin ParsedKeys}

\* C3 (as stated): a failed download or upload of one artifact is caught at
\* that artifact's boundary and counted as one failed artifact; the batch is
\* not aborted.
C3_Original ==
    (exc.raised /\ exc.op \in {"download", "upload"}) =>
        /\ pc # "crashed"
        /\ stage[exc.blob] = "Failed"
        /\ error_count >= 1

\* a raw artifact holding a non-blank payload line of fewer than 7 fields
FieldCount(line) == 1 + Cardinality({i \in 1..Len(line) : line[i] = ","})
IsBlank(line) == \A i \in 1..Len(line) : line[i] = " "
MalformedContents ==
    {content \in DataContents \cup {"gps_track", "empty"} :
        LET rows == FileRows(content)
        IN \E r \in 1..Len(rows) :
              /\ rows[r].payload.present
              /\ \E l \in 1..Len(rows[r].payload.lines) :
                    /\ ~IsBlank(rows[r].payload.lines[l])
                    /\ FieldCount(rows[r].payload.lines[l]) < 7}
Malformed(name) == raw[name] \in MalformedContents

\* C4: an artifact with a payload line of fewer than 7 fields fails alone:
\* it never gets past parsing, its failure is counted once and changes no
\* other artifact and no parsed blob, it never ends the batch, and a batch
\* that runs to its end has failed exactly the malformed artifacts and
\* completed every other one.
C4_MalformedFailsAlone ==
    /\ [](\A a \in DOMAIN stage :
            Malformed(a) =>
                stage[a] \in {"Pending", "Downloading", "Parsing", "Grouping",
                              "Failed"})
    /\ [](pc = "crashed" => exc.op \in {"download", "upload"})
    /\ []((pc = "done" /\ output_format \in {"csv", "jsonl"}) =>
            /\ \A a \in DOMAIN stage :
                  stage[a] = IF Malformed(a) THEN "Failed" ELSE "Done"
            /\ error_count = Cardinality({a \in DOMAIN stage : Malformed(a)}))
    /\ [][\A a \in DOMAIN stage :
            (a \in DOMAIN stage' /\ stage[a] # "Failed" /\ stage'[a] = "Failed") =>
                /\ Malformed(a)
                /\ error_count' = error_count + 1
                /\ success_count' = success_count
                /\ pc' = pc
                /\ parsed' = parsed
                /\ \A b \in DOMAIN stage \ {a} : stage'[b] = stage[b]]_vars

\* witness of C4: a batch has ended in which a malformed artifact failed and
\* an artifact after it in the work list completed
C4_Witness ==
    /\ pc = "done"
    /\ \E i, j \in 1..Len(data_files) :
          /\ i < j
          /\ Malformed(data_files[i])
          /\ stage[data_files[i]] = "Failed"
          /\ stage[data_files[j]] = "Done"
          /\ raw[data_files[j]] = "two_tags"

\* position of a stage in the order the claim gives
Rank(st) ==
    CASE st = "Pending" -> 0 [] st = "Downloading" -> 1 [] st = "Parsing" -> 2
      [] st = "Grouping" -> 3 [] st = "Serializing" -> 4
      [] st = "Uploading" -> 5 [] st = "Done" -> 6 [] st = "Failed" -> 7

\* C5 (as stated): an artifact only moves forward through Pending,
\* Downloading, Parsing, Grouping, Serializing, Uploading, Done (no stage is
\* re-entered); it enters Failed only from Downloading, Parsing or
\* Uploading, and never leaves Failed.
C5_Original ==
    [][\A a \in DOMAIN stage :
          (a \in DOMAIN stage' /\ stage'[a] # stage[a]) =>
              /\ stage[a] # "Failed"
              /\ IF stage'[a] = "Failed"
                 THEN stage[a] \in {"Downloading", "Parsing", "Uploading"}
                 ELSE Rank(stage'[a]) > Rank(stage[a])]_vars

\* the stage changes the code makes
DataSteps ==
    {<<"Pending", "Downloading">>, <<"Downloading", "Parsing">>,
     <<"Parsing", "Grouping">>, <<"Grouping", "Parsing">>,
     <<"Parsing", "Failed">>, <<"Parsing", "Done">>,
     <<"Parsing", "Serializing">>, <<"Serializing", "Uploading">>,
     <<"Uploading", "Serializing">>, <<"Uploading", "Done">>}
LocationSteps ==
    {<<"Pending", "Downloading">>, <<"Downloading", "Uploading">>,
     <<"Uploading", "Done">>}

\* C5 (amended): a data artifact goes Pending, Downloading, then alternates
\* Parsing and Grouping once per record, then (unless no record was parsed,
\* which ends it Done) alternates Serializing and Uploading once per type
\* tag, then Done; a location artifact goes Pending, Downloading, Uploading,
\* Done; Failed is entered only from Parsing, and neither Failed nor Done is
\* ever left.
C5_Amended ==
    [][\A a \in DOMAIN stage :
          (a \in DOMAIN stage' /\ stage'[a] # stage[a]) =>
              <<stage[a], stage'[a]>> \in
                  (IF IsLocationArtifact(a) THEN LocationSteps ELSE DataSteps)]_vars

\* witness of C5: an artifact is serializing its second type tag, after the
\* upload of its first, while an earlier artifact of the batch has failed
C5_Witness ==
    /\ ppc = "serialize"
    /\ ti = 2
    /\ stage[cur] = "Serializing"
    /\ \E a \in DOMAIN stage : stage[a] = "Failed"

\* C6 (as stated): every record sequence process_file passes to
\* expand_payload_records is sorted ascending by timestamp_epoch_ms.
C6_Original == SortedByTs(expand_arg.records)

\* where the claim puts the copy of a location artifact
LocationTarget(name) ==
    LET e == RawEntryOf(name)
    IN ParsedName(e.subject, "location", e.date, "csv")

\* C10: a -location artifact is never among the data files and never in a
\* stage of the signal pipeline; when selected it is in the location branch
\* of the plan, and once done its unchanged content is the blob
\* parsed/<subject>/location/<date>.csv.
C10_LocationPassThrough ==
    \A n \in DOMAIN raw :
        IsLocationArtifact(n) =>
            /\ n \notin SeqRange(data_files)
            /\ expand_arg.blob # n
            /\ (cur = n => pc \in {"loc", "crashed"} /\ records_by_tag = <<>>
                           /\ gen = 0)
            /\ n \in DOMAIN stage =>
                  /\ n \in SeqRange(location_files)
                  /\ stage[n] \in {"Pending", "Downloading", "Uploading", "Done"}
                  /\ stage[n] = "Done" =>
                        /\ LocationTarget(n) \in DOMAIN parsed
                        /\ parsed[LocationTarget(n)] =
                              [kind |-> "copy", content_type |-> "text/csv",
                               content |-> raw[n]]

\* witness of C10: a batch holding a data artifact and a location artifact
\* has ended with both done
C10_Witness ==
    /\ pc = "done"
    /\ \E n \in DOMAIN stage : IsLocationArtifact(n) /\ stage[n] = "Done"
    /\ \E n \in DOMAIN stage : ~IsLocationArtifact(n) /\ stage[n] = "Done"

\* ------------------------------------------------------------------------
\* Properties of the writers (checked under SpecCli)
\* ------------------------------------------------------------------------
\* some written record has a type_tag field
HasTypeTag(rows) == \E k \in 1..Len(rows) : "type_tag" \in DOMAIN rows[k]

\* the files process_file has written or uploaded
WrittenFiles ==
    {f \in {out_file} \cup {parsed[n] : n \in DOMAIN parsed} :
        f.kind \in {"csv", "jsonl"}}

\* C11 (as stated): no record written by any writer -- write_csv and
\* write_jsonl of parse_payload, the CSV and JSONL branches of process_file
\* -- has a type_tag field, and no CSV header names it.
C11_Original ==
    /\ ~HasTypeTag(output_stream.lines)
    /\ "type_tag" \notin SeqRange(output_stream.header)
    /\ \A f \in WrittenFiles :
          /\ ~HasTypeTag(f.rows)
          /\ f.kind = "csv" => "type_tag" \notin SeqRange(f.header)

\* ------------------------------------------------------------------------
\* Properties of parse_payload_block (checked under SpecBlock)
\* ------------------------------------------------------------------------
\* 1-based numbers of the non-blank lines of a blob with fewer than 7 fields
ShortLines(b) ==
    {i \in 1..Len(b) : ~IsBlank(b[i]) /\ FieldCount(b[i]) < 7}

\* number of the first of them
FirstShort(b) == CHOOSE i \in ShortLines(b) : \A k \in ShortLines(b) : i <= k

\* the blobs on which the call ends in the given error
BlocksRaising(error) ==
    {b \in SeqsUpTo(LinePool, MaxLines) : parse_payload_block(b).error = error}

\* C12 (as stated): on a blob with a non-blank line of fewer than 7 fields
\* parse_payload_block does not skip that line but raises a parse error,
\* and the error identifies the content of the offending line and its
\* 1-based line number within the blob (no blob with the offending line at
\* another number raises the same error).
C12_Original ==
    (block_pc = "ret" /\ ShortLines(block) # {}) =>
        /\ block_result.error.raised
        /\ block_result.error.line = block[FirstShort(block)]
        /\ \A b \in BlocksRaising(block_result.error) :
              FirstShort(b) = FirstShort(block)

\* the part of C12 the code keeps: the line is not skipped, the call raises
\* at the first such line after yielding the records of the lines before
\* it, and the error carries the line as given and its number of fields
C12_RaisesWithContent ==
    (block_pc = "ret" /\ ShortLines(block) # {}) =>
        /\ block_result.error.raised
        /\ block_result.error.kind = "ValueError"
        /\ block_result.error.line = block[FirstShort(block)]
        /\ block_result.error.columns = FieldCount(block[FirstShort(block)])
        /\ Len(block_result.records) =
              Cardinality({i \in 1..(FirstShort(block) - 1) : ~IsBlank(block[i])})

\* ------------------------------------------------------------------------
\* Properties of the batch run, continued (checked under Spec)
\* ------------------------------------------------------------------------
\* the artifacts of the work list by how their processing ended
FailedArtifacts == {a \in DOMAIN stage : stage[a] = "Failed"}
DoneArtifacts == {a \in DOMAIN stage : stage[a] = "Done"}

\* C13: when main returns after processing its work list, the status is
\* non-zero if and only if at least one artifact of the work list failed,
\* success_count + error_count is the number of artifacts of the work list,
\* and the two counters count the artifacts that completed and that failed.
C13_ExitStatus ==
    (pc = "done" /\ output_format \in {"csv", "jsonl"}) =>
        /\ exit_status \in {0, 1}
        /\ exit_status # 0 <=> FailedArtifacts # {}
        /\ success_count + error_count = Len(data_files) + Len(location_files)
        /\ Len(data_files) + Len(location_files) = Cardinality(DOMAIN stage)
        /\ error_count = Cardinality(FailedArtifacts)
        /\ success_count = Cardinality(DoneArtifacts)

\* witness of C13: main has returned 1 from a work list of which one
\* artifact failed and two completed
C13_Witness ==
    /\ pc = "done"
    /\ exit_status = 1
    /\ error_count = 1
    /\ success_count = 2
    /\ Cardinality(FailedArtifacts) = 1
    /\ Len(data_files) + Len(location_files) = 3

\* a work list of which nothing failed has been processed and main has
\* returned 0
C13_WitnessZero ==
    /\ pc = "done"
    /\ exit_status = 0
    /\ success_count = 3
    /\ FailedArtifacts = {}

\* number of records in the groups
GroupedCount ==
    LET RECURSIVE sum(_)
        sum(k) == IF k = 0 THEN 0
                  ELSE sum(k - 1) + Len(records_by_tag[k].records)
    IN sum(Len(records_by_tag))

\* process_file has consumed and grouped the whole file before it writes or
\* uploads anything
WholeFileFirst ==
    (cur \in SeqRange(data_files) /\ ppc \in {"serialize", "upload"}) =>
        /\ ~Trace.error.raised
        /\ gen = Len(Trace.records)
        /\ GroupedCount = gen

\* what follows "<subject>-" in a raw file name, up to the extension
NameStem(e) ==
    e.date \o (IF e.suffix = "" THEN <<>> ELSE <<"-", e.suffix>>)

\* the parsed blobs stored under the subject and the name of the raw
\* artifact a: parsed/<subject>/<tag>/<stem>.<ext> with a tag other than
\* location, where <subject>-<stem> is a's file name without its extension
StoredUnderNameOf(a) ==
    {n \in DOMAIN parsed :
        LET out == ParsedEntryOf(n)
        IN /\ out.kind = "tag"
           /\ out.tag # "location"
           /\ out.subject = RawEntryOf(a).subject
           /\ out.stem = NameStem(RawEntryOf(a))}

\* a reconciliation can come next: no run of main has planned yet, or the
\* run has ended (returned, or died of an uncaught exception)
BetweenRuns == pc \in {"start", "done", "crashed"}

\* C14 (as stated): process_file consumes and groups the whole file before
\* the first upload; while an artifact with a malformed payload line is
\* processed nothing is uploaded; and once it has failed it is in the work
\* list a reconciliation computes.
C14_Original ==
    /\ []WholeFileFirst
    /\ [][(cur # NoBlob /\ Malformed(cur)) => parsed' = parsed]_vars
    /\ [](BetweenRuns => FailedArtifacts \subseteq WorkList)

\* C14 (amended): the same, except that a failed artifact is in the work
\* list a reconciliation computes exactly when no parsed blob is stored
\* under its own subject and name; such a blob is never there from before
\* the run and never comes from the failed artifact, so it is the output of
\* another artifact of the batch.
C14_Amended ==
    /\ []WholeFileFirst
    /\ [][(cur # NoBlob /\ Malformed(cur)) => parsed' = parsed]_vars
    /\ [](\A a \in FailedArtifacts : Malformed(a))
    /\ [](BetweenRuns =>
            LET selected == WorkList
            IN \A a \in FailedArtifacts :
                  /\ a \in selected <=> StoredUnderNameOf(a) = {}
                  /\ \A n \in StoredUnderNameOf(a) : parsed[n].kind # "old")

\* witness of C14: a batch has ended in which two artifacts failed on a
\* malformed line that follows a well-formed one; one is still in the work
\* list, the other is not, although no other artifact has its name: the
\* output of the artifact of another date is stored under its name
C14_Witness ==
    /\ pc = "done"
    /\ \E a \in FailedArtifacts :
          /\ Len(Traces[raw[a]].records) > 0
          /\ a \in WorkList
    /\ \E a \in FailedArtifacts :
          /\ Len(Traces[raw[a]].records) > 0
          /\ a \notin WorkList
          /\ StoredUnderNameOf(a) # {}
          /\ \A b \in DOMAIN raw \ {a} :
                IsArtifact(b) =>
                    NameStem(RawEntryOf(b)) # NameStem(RawEntryOf(a))
          /\ \E b \in DoneArtifacts :
                /\ RawEntryOf(b).date # RawEntryOf(a).date
                /\ StoredUnderNameOf(a)
                      \subseteq {DataOutputName(b, tag, output_format) :
                                    tag \in {<<"HR">>, <<"EA">>}}

\* the raw data artifacts of the listing
DataArtifacts == {n \in DOMAIN raw : IsArtifact(n) /\ ~IsLocationArtifact(n)}

\* the per-tag upload loop of the current artifact was stopped by a failed
\* upload after it had uploaded its first tag
StoppedAfterFirstTag ==
    /\ pc = "crashed"
    /\ exc.op = "upload"
    /\ cur \in SeqRange(data_files)
    /\ ti = 2

====
